---- MODULE Spec2Model ----
(***************************************************************************)
(* Model of the CS journal recommender: cs_journal_recommender.py (the     *)
(* line-mode program) and cs_journal_ui.py (the form-based program).       *)
(*                                                                         *)
(* A text is a sequence of words; "." stands for the ". " that joins title *)
(* and abstract.  A paper record carries the fields the ranking and the    *)
(* link extraction read: title, abstract, text, pdf_link.                  *)
(*                                                                         *)
(* TF-IDF weights are kept exact: a row is its unnormalised integer weight *)
(* vector together with the square of its Euclidean norm, and a similarity *)
(* is the dot product of two weight vectors together with both squared     *)
(* norms, so that scores are compared without rounding.  idf values are    *)
(* fixed-point, in units of 1/8.                                           *)
(***************************************************************************)
EXTENDS Integers, Sequences, FiniteSets

VARIABLES surface, pc, response, df, vect, X, query, topk_s, top_k,
          sims, idx, recs, err, fetches, builds, ranks

vars == <<surface, pc, response, df, vect, X, query, topk_s, top_k,
          sims, idx, recs, err, fetches, builds, ranks>>

(***************************************************************************)
(* Bounds of the model.                                                    *)
(***************************************************************************)
MaxEntries == 2
MaxTyped == 2
MaxQueries == 2
MaxLinks == 2
MaxUnitEntries == 2

(***************************************************************************)
(* Program constants.                                                      *)
(***************************************************************************)
HTTP_OK == 200
DEFAULT_TOP_K == 10
SLIDER_MIN == 1
SLIDER_MAX == 20
max_features == 10000

Min(a, b) == IF a < b THEN a ELSE b
Max(a, b) == IF a < b THEN b ELSE a

RECURSIVE SumOver(_, _)
SumOver(S, f) ==
    IF S = {} THEN 0
    ELSE LET e == CHOOSE e \in S : TRUE IN f[e] + SumOver(S \ {e}, f)

Range(s) == {s[i] : i \in DOMAIN s}

Reverse(s) == [i \in 1..Len(s) |-> s[Len(s) + 1 - i]]

SeqsUpTo(S, n) == UNION {[1..k -> S] : k \in 0..n}

(***************************************************************************)
(* Python slicing: s[:k] and s[-k:], with negative bounds counted from the *)
(* end and every bound clamped to the sequence.                            *)
(***************************************************************************)
PyBound(i, n) == IF i < 0 THEN Max(n + i, 0) ELSE Min(i, n)

SliceTo(s, k) == SubSeq(s, 1, PyBound(k, Len(s)))

SliceFromNeg(s, k) == SubSeq(s, PyBound(0 - k, Len(s)) + 1, Len(s))

(***************************************************************************)
(* str.lower() on the words of the model.                                  *)
(***************************************************************************)
Lower(w) == CASE w = "Quit" -> "quit"
              [] w = "Graph" -> "graph"
              [] OTHER -> w

(***************************************************************************)
(* The remote answer: a status and a body.  A body is an Atom feed, a      *)
(* sequence of entries, or text that is not XML.                           *)
(***************************************************************************)
Malformed == [wellformed |-> FALSE, entries |-> <<>>]
Feed(es) == [wellformed |-> TRUE, entries |-> es]

PdfLink1 == [title |-> "pdf", href |-> "u1"]
PdfLink2 == [title |-> "pdf", href |-> "u2"]
DoiLink == [title |-> "doi", href |-> "u3"]
AbsLink == [title |-> "None", href |-> "u4"]

Entry(t, a, ls) == [title |-> t, summary |-> a, links |-> ls]

SessionEntries ==
    { Entry(<<"graph">>, <<"graph">>, <<AbsLink, PdfLink1>>),
      Entry(<<"graph">>, <<"the">>, <<AbsLink>>),
      Entry(<<"deadlock">>, <<"graph">>, <<AbsLink, PdfLink1>>),
      Entry(<<"the">>, <<"the">>, <<AbsLink, PdfLink2>>) }

UnitEntries ==
    { Entry(<<"graph">>, <<"the">>, ls) :
        ls \in SeqsUpTo({PdfLink1, PdfLink2, DoiLink}, MaxLinks) }

Statuses == {HTTP_OK, 503}

SessionResponses ==
    [status : Statuses,
     body : {Malformed} \cup {Feed(es) : es \in SeqsUpTo(SessionEntries, MaxEntries)}]

UnitResponses ==
    [status : Statuses,
     body : {Malformed} \cup {Feed(es) : es \in SeqsUpTo(UnitEntries, MaxUnitEntries)}]

(***************************************************************************)
(* fetch_arxiv_papers: the record built from one entry.  The loop over the *)
(* entry's links assigns pdf_link at every link titled "pdf".              *)
(***************************************************************************)
RECURSIVE pdf_link_loop(_, _)
pdf_link_loop(links, pdf_link) ==
    IF links = <<>> THEN pdf_link
    ELSE pdf_link_loop(Tail(links),
                       IF Head(links).title = "pdf" THEN Head(links).href
                       ELSE pdf_link)

paper_record(e) ==
    [title |-> e.title,
     abstract |-> e.summary,
     text |-> e.title \o <<".">> \o e.summary,
     pdf_link |-> pdf_link_loop(e.links, "None")]

(***************************************************************************)
(* A fetch that reads the body whatever the status.                        *)
(***************************************************************************)
fetch_no_status_check(r) ==
    IF ~r.body.wellformed THEN [raised |-> "ParseError", df |-> <<>>]
    ELSE [raised |-> "none",
          df |-> [i \in 1..Len(r.body.entries) |-> paper_record(r.body.entries[i])]]

(***************************************************************************)
(* fetch_arxiv_papers: [raised, df].  A status other than 200 returns the  *)
(* empty frame before the body is read; ET.fromstring raises on a body     *)
(* that is not XML.                                                        *)
(***************************************************************************)
fetch_arxiv_papers(r) ==
    IF r.status # HTTP_OK THEN [raised |-> "none", df |-> <<>>]
    ELSE IF ~r.body.wellformed THEN [raised |-> "ParseError", df |-> <<>>]
    ELSE [raised |-> "none",
          df |-> [i \in 1..Len(r.body.entries) |-> paper_record(r.body.entries[i])]]

(***************************************************************************)
(* TfidfVectorizer(max_features=10000, stop_words='english').              *)
(* The analyzer lowercases, keeps the tokens of two or more word           *)
(* characters (so "." is no token) and drops the stop words.               *)
(***************************************************************************)
StopWords == {"the"}

IsToken(w) == w # "."

Keep(w) == IsToken(w) /\ w \notin StopWords

analyzer(text) == SelectSeq([i \in 1..Len(text) |-> Lower(text[i])], Keep)

Count(tokens, t) == Cardinality({i \in 1..Len(tokens) : tokens[i] = t})

(***************************************************************************)
(* idf(t) = ln((1 + n) / (1 + df(t))) + 1 (smooth_idf), in units of 1/8,   *)
(* rounded: IdfTable[n][df].                                               *)
(***************************************************************************)
IdfTable == << <<8>>,
               <<11, 8>>,
               <<14, 10, 8>>,
               <<15, 12, 10, 8>>,
               <<17, 14, 11, 9, 8>> >>

(***************************************************************************)
(* Rows without l2 normalisation (norm=None).                              *)
(***************************************************************************)
normalize_none(w) == [w |-> w, norm2 |-> 1]

(***************************************************************************)
(* norm='l2': the row w stands for w / sqrt(norm2); a zero row is left as  *)
(* it is (its norm is taken as 1).                                         *)
(***************************************************************************)
normalize(w) ==
    LET s == SumOver(DOMAIN w, [t \in DOMAIN w |-> w[t] * w[t]])
    IN [w |-> w, norm2 |-> IF s = 0 THEN 1 ELSE s]

tfidf_row(tokens, v) ==
    normalize([t \in v.vocabulary |-> Count(tokens, t) * v.idf[t]])

(***************************************************************************)
(* max_features: when the terms outnumber the cap, the terms of highest    *)
(* corpus count are kept.                                                  *)
(***************************************************************************)
limit_features(terms, count) ==
    IF Cardinality(terms) <= max_features THEN terms
    ELSE CHOOSE S \in SUBSET terms :
            /\ Cardinality(S) = max_features
            /\ \A t \in S : \A u \in terms \ S : count[t] >= count[u]

Unfitted == [fitted |-> FALSE, vocabulary |-> {}, idf |-> <<>>]

fit(docs) ==
    LET n == Len(docs)
        terms == UNION {Range(docs[i]) : i \in 1..n}
        count == [t \in terms |-> SumOver(1..n, [i \in 1..n |-> Count(docs[i], t)])]
        vocab == limit_features(terms, count)
        dfreq(t) == Cardinality({i \in 1..n : t \in Range(docs[i])})
    IN [fitted |-> TRUE, vocabulary |-> vocab,
        idf |-> [t \in vocab |-> IdfTable[n][dfreq(t)]]]

(***************************************************************************)
(* A build that answers the empty frame with an empty index.               *)
(***************************************************************************)
build_tfidf_empty_index(d) ==
    LET docs == [i \in 1..Len(d) |-> analyzer(d[i].text)]
        v == fit(docs)
    IN [raised |-> "none", vect |-> v,
        X |-> [i \in 1..Len(d) |-> tfidf_row(docs[i], v)]]

(***************************************************************************)
(* build_tfidf: [raised, vect, X].  df['text'] raises KeyError on the      *)
(* frame without columns that an empty fetch returns; fit_transform raises *)
(* ValueError ("empty vocabulary") when no document holds a term.          *)
(***************************************************************************)
build_tfidf(d) ==
    IF Len(d) = 0 THEN [raised |-> "KeyError", vect |-> Unfitted, X |-> <<>>]
    ELSE LET docs == [i \in 1..Len(d) |-> analyzer(d[i].text)]
         IN IF UNION {Range(docs[i]) : i \in 1..Len(d)} = {}
            THEN [raised |-> "ValueError", vect |-> Unfitted, X |-> <<>>]
            ELSE LET v == fit(docs)
                 IN [raised |-> "none", vect |-> v,
                     X |-> [i \in 1..Len(d) |-> tfidf_row(docs[i], v)]]

(***************************************************************************)
(* vect.transform([query]) leaves the fitted vectorizer as it is.          *)
(***************************************************************************)
transform(v, q) == tfidf_row(analyzer(q), v)

(***************************************************************************)
(* A vectorizer refitted on the query (fit_transform in place of           *)
(* transform).                                                             *)
(***************************************************************************)
vect_refit_on_query(v, q) ==
    IF Range(analyzer(q)) = {} THEN v ELSE fit(<<analyzer(q)>>)

vect_after_transform(v, q) == v

(***************************************************************************)
(* linear_kernel(qv, X).flatten(): sims[i] is the real number              *)
(* num / sqrt(qnorm2 * dnorm2).                                            *)
(***************************************************************************)
Dot(a, b) ==
    LET D == DOMAIN a \cap DOMAIN b
    IN SumOver(D, [t \in D |-> a[t] * b[t]])

linear_kernel(qv, rows) ==
    [i \in 1..Len(rows) |->
        [num |-> Dot(qv.w, rows[i].w), qnorm2 |-> qv.norm2, dnorm2 |-> rows[i].norm2]]

(***************************************************************************)
(* Order of two similarities to the same query (equal qnorm2).             *)
(***************************************************************************)
ScoreLess(a, b) == a.num * a.num * b.dnorm2 < b.num * b.num * a.dnorm2

ScoreEq(a, b) == ~ScoreLess(a, b) /\ ~ScoreLess(b, a)

IsZero(a) == a.num = 0

(***************************************************************************)
(* numpy argsort with the default kind (quicksort, not stable): any        *)
(* permutation that puts the keys in non-decreasing order.                 *)
(***************************************************************************)
Perms(n) == {p \in [1..n -> 1..n] : \A i, j \in 1..n : p[i] = p[j] => i = j}

argsort_ascending(s) ==
    {p \in Perms(Len(s)) :
        \A i, j \in 1..Len(s) : i < j => ~ScoreLess(s[p[j]], s[p[i]])}

argsort_negated(s) ==
    {p \in Perms(Len(s)) :
        \A i, j \in 1..Len(s) : i < j => ~ScoreLess(s[p[i]], s[p[j]])}

(***************************************************************************)
(* recommend_papers, line-mode: idx = np.argsort(-sims)[:top_k]            *)
(***************************************************************************)
recommend_idx_line(s, k) == {SliceTo(p, k) : p \in argsort_negated(s)}

(***************************************************************************)
(* recommend_papers, form-based: idx = sims.argsort()[-top_k:][::-1]       *)
(***************************************************************************)
recommend_idx_form(s, k) ==
    {Reverse(SliceFromNeg(p, k)) : p \in argsort_ascending(s)}

recommend_idx(sf, s, k) ==
    IF sf = "line" THEN recommend_idx_line(s, k) ELSE recommend_idx_form(s, k)

iloc(d, ix) == [i \in 1..Len(ix) |-> d[ix[i]]]

(***************************************************************************)
(* int(topk_s) on the typed characters: an optional sign and digits;       *)
(* anything else raises ValueError.                                        *)
(***************************************************************************)
Digits == <<"0", "1", "2", "3", "4", "5", "6", "7", "8", "9">>

DigitVal(c) == (CHOOSE d \in 1..10 : Digits[d] = c) - 1

Unsigned(s) == IF Len(s) > 0 /\ s[1] \in {"-", "+"} THEN Tail(s) ELSE s

IsIntLiteral(s) ==
    /\ Len(Unsigned(s)) > 0
    /\ \A i \in 1..Len(Unsigned(s)) : Unsigned(s)[i] \in Range(Digits)

RECURSIVE DigitsValue(_)
DigitsValue(s) ==
    IF s = <<>> THEN 0
    ELSE 10 * DigitsValue(SubSeq(s, 1, Len(s) - 1)) + DigitVal(s[Len(s)])

int(s) == IF s[1] = "-" THEN 0 - DigitsValue(Unsigned(s)) ELSE DigitsValue(Unsigned(s))

(***************************************************************************)
(* main: top_k = int(topk_s) if topk_s else 10, and 10 when int raises.    *)
(***************************************************************************)
parse_top_k(s) ==
    IF s = <<>> THEN DEFAULT_TOP_K
    ELSE IF IsIntLiteral(s) THEN int(s)
    ELSE DEFAULT_TOP_K

IsSentinel(q) == Len(q) = 1 /\ Lower(q[1]) \in {"exit", "quit"}

(***************************************************************************)
(* What the user can type or select.                                       *)
(***************************************************************************)
Sentinels == {<<"exit">>, <<"Quit">>}

Blank == <<>>

RankQueries == {<<"quantum">>} \cup {paper_record(e).text : e \in SessionEntries}

LineQueries == Sentinels \cup RankQueries

FormQueries == {Blank} \cup RankQueries

TopKInputs ==
    {<<>>, <<"a">>, <<"-", "1">>, <<"0">>} \cup {<<Digits[d + 1]>> : d \in 1..MaxTyped}

SliderValues == {k \in SLIDER_MIN..SLIDER_MAX : k <= MaxTyped \/ k = SLIDER_MAX}

(***************************************************************************)
(* The sessions of both programs, for one subject selection.               *)
(*   pc: "start"   before the fetch                                        *)
(*       "fetched" fetch_arxiv_papers has returned df                      *)
(*       "loop"    the index is built; no result of this round is held     *)
(*       "ranked"  recommend_papers has returned recs for query, top_k     *)
(*       "done"    the session has ended                                   *)
(*       "crashed" an exception has ended the session (err names it)       *)
(***************************************************************************)
InitCommon ==
    /\ pc = "start"
    /\ df = <<>>
    /\ vect = Unfitted
    /\ X = <<>>
    /\ query = <<>>
    /\ topk_s = <<>>
    /\ top_k = DEFAULT_TOP_K
    /\ sims = <<>>
    /\ idx = <<>>
    /\ recs = <<>>
    /\ err = "none"
    /\ fetches = 0
    /\ builds = 0
    /\ ranks = 0

Init ==
    /\ surface \in {"line", "form"}
    /\ response \in SessionResponses
    /\ InitCommon

Fetch ==
    /\ pc = "start"
    /\ surface \in {"line", "form"}
    /\ fetches' = fetches + 1
    /\ LET r == fetch_arxiv_papers(response)
       IN /\ df' = r.df
          /\ err' = r.raised
          /\ pc' = IF r.raised = "none" THEN "fetched" ELSE "crashed"
    /\ UNCHANGED <<surface, response, vect, X, query, topk_s, top_k,
                   sims, idx, recs, builds, ranks>>

ReturnEmpty ==
    /\ pc = "fetched"
    /\ Len(df) = 0
    /\ pc' = "done"
    /\ UNCHANGED <<surface, response, df, vect, X, query, topk_s, top_k,
                   sims, idx, recs, err, fetches, builds, ranks>>

Build ==
    /\ pc = "fetched"
    /\ Len(df) # 0
    /\ builds' = builds + 1
    /\ LET b == build_tfidf(df)
       IN /\ vect' = b.vect
          /\ X' = b.X
          /\ err' = b.raised
          /\ pc' = IF b.raised = "none" THEN "loop" ELSE "crashed"
    /\ UNCHANGED <<surface, response, df, query, topk_s, top_k,
                   sims, idx, recs, fetches, ranks>>

(***************************************************************************)
(* recommend_papers(query, df, vect, X, top_k) as called by a surface.     *)
(***************************************************************************)
Recommend(q, k) ==
    /\ ranks < MaxQueries
    /\ ranks' = ranks + 1
    /\ query' = q
    /\ top_k' = k
    /\ vect' = vect_after_transform(vect, q)
    /\ LET s == linear_kernel(transform(vect, q), X)
       IN /\ sims' = s
          /\ \E ix \in recommend_idx(surface, s, k) :
                /\ idx' = ix
                /\ recs' = iloc(df, ix)
    /\ pc' = "ranked"
    /\ UNCHANGED <<surface, response, df, X, err, fetches, builds>>

LineExit ==
    /\ surface = "line"
    /\ pc \in {"loop", "ranked"}
    /\ \E q \in LineQueries :
          /\ IsSentinel(q)
          /\ query' = q
    /\ pc' = "done"
    /\ UNCHANGED <<surface, response, df, vect, X, topk_s, top_k,
                   sims, idx, recs, err, fetches, builds, ranks>>

LineRank ==
    /\ surface = "line"
    /\ pc \in {"loop", "ranked"}
    /\ \E q \in LineQueries, s \in TopKInputs :
          /\ ~IsSentinel(q)
          /\ topk_s' = s
          /\ Recommend(q, parse_top_k(s))

FormSearch ==
    /\ surface = "form"
    /\ pc \in {"loop", "ranked"}
    /\ \E q \in FormQueries, k \in SliderValues :
          /\ q # Blank
          /\ Recommend(q, k)
    /\ UNCHANGED topk_s

FormIdle ==
    /\ surface = "form"
    /\ pc \in {"loop", "ranked"}
    /\ \E q \in FormQueries, clicked \in BOOLEAN : ~(clicked /\ q # Blank)
    /\ sims' = <<>>
    /\ idx' = <<>>
    /\ recs' = <<>>
    /\ pc' = "loop"
    /\ UNCHANGED <<surface, response, df, vect, X, query, topk_s, top_k,
                   err, fetches, builds, ranks>>

Next ==
    \/ Fetch
    \/ ReturnEmpty
    \/ Build
    \/ LineExit
    \/ LineRank
    \/ FormSearch
    \/ FormIdle

Spec == Init /\ [][Next]_vars

(***************************************************************************)
(* The functions called on their own: fetch_arxiv_papers on any answer of  *)
(* the remote, then build_tfidf on whatever frame the fetch returned, the  *)
(* empty one included.                                                     *)
(*   pc: "start", "unit_fetched" (the fetch returned df),                  *)
(*       "unit_raised" (the fetch raised), "unit_built" (build_tfidf has   *)
(*       returned or raised; err names the exception)                      *)
(***************************************************************************)
UnitInit ==
    /\ surface = "unit"
    /\ response \in UnitResponses
    /\ InitCommon

UnitFetch ==
    /\ surface = "unit"
    /\ pc = "start"
    /\ fetches' = fetches + 1
    /\ LET r == fetch_arxiv_papers(response)
       IN /\ df' = r.df
          /\ err' = r.raised
          /\ pc' = IF r.raised = "none" THEN "unit_fetched" ELSE "unit_raised"
    /\ UNCHANGED <<surface, response, vect, X, query, topk_s, top_k,
                   sims, idx, recs, builds, ranks>>

UnitBuild ==
    /\ surface = "unit"
    /\ pc = "unit_fetched"
    /\ builds' = builds + 1
    /\ LET b == build_tfidf(df)
       IN /\ vect' = b.vect
          /\ X' = b.X
          /\ err' = b.raised
    /\ pc' = "unit_built"
    /\ UNCHANGED <<surface, response, df, query, topk_s, top_k,
                   sims, idx, recs, fetches, ranks>>

UnitNext ==
    \/ UnitFetch
    \/ UnitBuild

UnitSpec == UnitInit /\ [][UnitNext]_vars

(***************************************************************************)
(* Properties.                                                             *)
(***************************************************************************)

(* C1: after a rank call with top_k > 0 the returned records are in        *)
(* non-increasing order of similarity, and records of equal similarity     *)
(* keep their corpus order.                                                *)
C1_OrderedAndStable ==
    (pc = "ranked" /\ top_k > 0) =>
        \A i, j \in 1..Len(idx) :
            i < j =>
                /\ ~ScoreLess(sims[idx[i]], sims[idx[j]])
                /\ ScoreEq(sims[idx[i]], sims[idx[j]]) => idx[i] < idx[j]

(* C2: a rank call never returns more than min(top_k, n) records, and      *)
(* exactly min(top_k, n) of them when top_k > 0.                           *)
C2_ResultCount ==
    pc = "ranked" =>
        /\ Len(recs) <= Min(top_k, Len(df))
        /\ top_k > 0 => Len(recs) = Min(top_k, Len(df))

(* C3: every rank call a surface issues has top_k >= 1: line-mode passes   *)
(* the typed value when it is a positive integer and 10 otherwise, the     *)
(* form passes a slider value in 1..20.                                    *)
C3_TopKPositive ==
    pc = "ranked" =>
        /\ top_k >= 1
        /\ surface = "line" =>
              top_k = IF IsIntLiteral(topk_s) /\ int(topk_s) >= 1
                      THEN int(topk_s) ELSE DEFAULT_TOP_K
        /\ surface = "form" => top_k \in SLIDER_MIN..SLIDER_MAX

first_pdf_link(links) ==
    LET P == {i \in 1..Len(links) : links[i].title = "pdf"}
    IN IF P = {} THEN "None"
       ELSE links[CHOOSE i \in P : \A j \in P : i <= j].href

(* C4: every record of a successful fetch carries the href of the first    *)
(* link of its entry titled "pdf", and no link when the entry has none.    *)
C4_FirstPdfLink ==
    (pc \in {"unit_fetched", "unit_built"} /\ response.status = HTTP_OK) =>
        /\ Len(df) = Len(response.body.entries)
        /\ \A i \in 1..Len(df) :
              df[i].pdf_link = first_pdf_link(response.body.entries[i].links)

(* C5: on a status other than 200 the fetch returns, whatever the body     *)
(* holds, the zero-record frame that a successful answer without entries   *)
(* gives, and the body is never parsed (no parse error is raised).         *)
C5_NonSuccessEmpty ==
    (pc # "start" /\ response.status # HTTP_OK) =>
        /\ pc # "unit_raised"
        /\ Len(df) = 0
        /\ df = fetch_arxiv_papers([status |-> HTTP_OK, body |-> Feed(<<>>)]).df

C5_Witness ==
    /\ pc = "unit_fetched"
    /\ response.status = 503
    /\ response.body.wellformed
    /\ Len(response.body.entries) > 0
    /\ df = <<>>

C7_ZeroQueryCorpusOrder ==
    LET toks == [i \in 1..Len(query) |-> Lower(query[i])]
        words == {toks[i] : i \in {k \in 1..Len(toks) : IsToken(toks[k])}}
    IN (/\ pc = "ranked"
        /\ top_k > 0
        /\ \/ words \subseteq StopWords
           \/ words \cap vect.vocabulary = {})
       => /\ \A i \in 1..Len(sims) : IsZero(sims[i])
          /\ idx = [i \in 1..Min(top_k, Len(df)) |-> i]

(* C8: when the query is the exact text of record d, no record has a       *)
(* similarity above d's, and the first returned record ties with d.        *)
C8_OwnTextRanksFirst ==
    pc = "ranked" =>
        \A d \in 1..Len(df) :
            query = df[d].text =>
                /\ \A j \in 1..Len(df) : ~ScoreLess(sims[d], sims[j])
                /\ top_k > 0 => ScoreEq(sims[idx[1]], sims[d])

C8_Witness ==
    /\ pc = "ranked"
    /\ top_k > 0
    /\ \E d, j \in 1..Len(df) :
          /\ query = df[d].text
          /\ sims[j].num > 0
          /\ ScoreLess(sims[j], sims[d])

(* C9: after any sequence of rank calls the corpus is still the fetched    *)
(* one and the index is still what build_tfidf gives on it, and the result *)
(* held is a result of the same call made first on a freshly built index.  *)
C9_RankIsPure ==
    LET fetched == fetch_arxiv_papers(response).df
        fresh == build_tfidf(fetched)
    IN /\ (pc \in {"loop", "ranked"} \/ (pc = "done" /\ builds = 1)) =>
             /\ df = fetched
             /\ vect = fresh.vect
             /\ X = fresh.X
       /\ pc = "ranked" =>
             /\ sims = linear_kernel(transform(fresh.vect, query), fresh.X)
             /\ idx \in recommend_idx(surface, sims, top_k)
             /\ recs = iloc(fetched, idx)

C9_Witness ==
    /\ pc = "ranked"
    /\ ranks = 2
    /\ Len(recs) > 0

(* C10: a line-mode session issues one fetch; it builds the index at most  *)
(* once, after the fetch and before any rank call; after an empty fetch it *)
(* ends without build or rank call; after a non-empty fetch it reaches the *)
(* query loop and ends only when the typed query is "exit" or "quit".      *)
C10_LineSession ==
    surface = "line" =>
        /\ fetches = IF pc = "start" THEN 0 ELSE 1
        /\ builds <= 1
        /\ ranks > 0 => builds = 1
        /\ pc \in {"loop", "ranked"} => builds = 1
        /\ (pc \in {"fetched", "done"} /\ Len(df) = 0) => (builds = 0 /\ ranks = 0)
        /\ Len(df) > 0 => pc \in {"fetched", "loop", "ranked", "done"}
        /\ (pc = "done" /\ Len(df) > 0) => IsSentinel(query)

====
